---- MODULE Spec2Model ----
(***************************************************************************)
(* State-machine model of JsonRpcClient (src/src/JsonRpcClient.js).         *)
(*                                                                         *)
(* The client sits on three collaborators that live in other packages:     *)
(* the transport provider, the event emitter and the message tracker.      *)
(* Their state is modelled from the contract the client relies on; the     *)
(* client's own functions (connect, sendRequest, sendEvent, onMessage,     *)
(* onDisconnect, disconnect, filterMessage) are translated from the code.  *)
(***************************************************************************)
EXTENDS Integers, Sequences, FiniteSets, TLC

(***************************************************************************)
(* Bounds of the model.                                                    *)
(***************************************************************************)
\* number of sendRequest and connect calls made in one behaviour
MaxOps == 2
\* last instant of the clock
MaxTime == 3

(***************************************************************************)
(* Program constants.                                                      *)
(***************************************************************************)
\* config.messageTimeout, in clock ticks (the test suite's client uses 2)
messageTimeout == 2

(***************************************************************************)
(* Value universe.  A missing key of a JavaScript object is Absent; the    *)
(* value read from a missing key is Undefined.                             *)
(***************************************************************************)
Absent == "absent"
Undefined == "undefined"

\* request objects handed to sendRequest
Reqs == {"reqA", "reqB"}
Ids == {"a", "b"}
Results == {"r1", "r2"}
Errs == {"e1"}
Methods == {"m"}
Params == {"p"}
\* errors the transport's connect may fail with
ConnErrs == {"ce1", "ce2"}
\* payloads the transport hands to its disconnect callback
DiscEvts == {"d1", "d2"}
\* events handed to sendEvent
Evts == {"evt1", "evt2"}

\* req.id
ReqId(req) == IF req = "reqA" THEN "a" ELSE "b"

\* inbound messages: objects by the presence of their keys, and the
\* non-object values a transport may deliver
AllObjMsgs == [kind : {"object"}, id : Ids \cup {Absent}, result : Results \cup {Absent},
               error : Errs \cup {Absent}, method : Methods \cup {Absent},
               params : Params \cup {Absent}]
\* the ones delivered here: every combination of keys with one value per
\* key, params coming with method, and the plain replies with the other
\* values
ObjMsgs == {m \in AllObjMsgs :
              /\ (m.params = Absent) = (m.method = Absent)
              /\ m.result = "r2" => (m.id = "a" /\ m.error = Absent /\ m.method = Absent)
              /\ m.id = "b" => m.method = Absent}
NonObj(kind) == [kind |-> kind, id |-> Absent, result |-> Absent, error |-> Absent,
                 method |-> Absent, params |-> Absent]
Msgs == ObjMsgs \cup {NonObj("primitive"), NonObj("null"), NonObj("undefined")}
NoMsg == NonObj("none")

\* key in m
In(key, m) == m[key] # Absent
\* m.key
Get(m, key) == IF m[key] = Absent THEN Undefined ELSE m[key]
\* typeof m
TypeOf(m) == CASE m.kind = "object" -> "object"
               [] m.kind = "null" -> "object"
               [] m.kind = "undefined" -> "undefined"
               [] OTHER -> "primitive"

(***************************************************************************)
(* JSON-RPC values (built by @adt/json-rpc, of which the client only uses   *)
(* the constructors).  All values share one record shape.                  *)
(***************************************************************************)
NoErr == [name |-> "none", of |-> Undefined, data |-> Undefined]
\* JsonRpcError(e): an error object built from the wire error e
JsonRpcError(e) == [name |-> "JsonRpcError", of |-> e, data |-> Undefined]
NoVal == [type |-> "none", id |-> Undefined, result |-> Undefined, error |-> NoErr,
          method |-> Undefined, params |-> Undefined]
\* the value of a variable that was never assigned
UndefVal == [NoVal EXCEPT !.type = "undefined"]
JsonRpcResponseResult(id, result) ==
    [NoVal EXCEPT !.type = "ResponseResult", !.id = id, !.result = result]
JsonRpcResponseError(id, error) ==
    [NoVal EXCEPT !.type = "ResponseError", !.id = id, !.error = error]
JsonRpcRequest(id, method, params) ==
    [NoVal EXCEPT !.type = "Request", !.id = id, !.method = method, !.params = params]
JsonRpcEvent(method, params) ==
    [NoVal EXCEPT !.type = "Event", !.method = method, !.params = params]
\* an error object used as a value by itself (a promise rejected with it)
ErrVal(err) == [NoVal EXCEPT !.type = "JsonRpcError", !.error = err]

(***************************************************************************)
(* Effects of one handler run, in the order the handler produces them.     *)
(***************************************************************************)
NoFx == [fx |-> "none", name |-> Undefined, val |-> NoVal, raw |-> NoMsg,
         arg |-> Undefined, k |-> 0]
\* emitter.emit(name), emitter.emit("disconnected", arg)
Emit(name, arg) == [NoFx EXCEPT !.fx = "emit", !.name = name, !.arg = arg]
\* emitter.emit("message", val) with a classified value (or undefined)
EmitMessage(val) == [NoFx EXCEPT !.fx = "emit", !.name = "message", !.val = val]
\* emitter.emit("message", m) with the raw inbound message
EmitRaw(m) == [NoFx EXCEPT !.fx = "emit", !.name = "message", !.raw = m]
\* transportProvider.send(x)
Send(x) == [NoFx EXCEPT !.fx = "send", !.arg = x]
\* transportProvider.disconnect()
TDisconnect == [NoFx EXCEPT !.fx = "tdisconnect"]
\* messageTracker.register(...) for call k
Register(k) == [NoFx EXCEPT !.fx = "register", !.k = k]
\* o.resolve(val) / o.reject(val) called by the filter; k is filled in by the
\* tracker with the call whose promise it settles
CallResolve(val) == [NoFx EXCEPT !.fx = "resolve", !.val = val]
CallReject(val) == [NoFx EXCEPT !.fx = "reject", !.val = val]
\* a TypeError thrown out of the handler
Throw == [NoFx EXCEPT !.fx = "throw", !.name = "TypeError"]

\* promises
Pending == [state |-> "pending", val |-> NoVal]
Resolved(val) == [state |-> "resolved", val |-> val]
Rejected(val) == [state |-> "rejected", val |-> val]

VARIABLES
    connected,   \* transportProvider.isConnected()
    tp,          \* tp[c]: the promise transportProvider.connect() returned to connect call c
    cp,          \* cp[c]: the promise connect call c returned
    clog,        \* clog[c]: what connect call c emitted and did to its promise, in order
    calls,       \* calls[k]: the k-th sendRequest call (its arguments, when it registered)
    promise,     \* promise[k]: the promise the k-th sendRequest call returned
    pending,     \* messageTracker's register of pending messages, in registration order
    teData,      \* JsonRpcClient.ERRORS.TIMEOUT_EXCEEDED.data
    now,         \* the clock
    last,        \* the handler that ran last, with its inputs and return value
    fx,          \* the effects of that run, in order
    shown        \* the connection state the lifecycle events emitted so far show

vars == <<connected, tp, cp, clog, calls, promise, pending, teData, now, last, fx, shown>>

(***************************************************************************)
(* JsonRpcClient.ERRORS.  data is writable on all three; the code writes   *)
(* it only on TIMEOUT_EXCEEDED.                                            *)
(***************************************************************************)
NO_ERROR == [name |-> "NO_ERROR", of |-> Undefined, data |-> Undefined]
TIMEOUT_EXCEEDED == [name |-> "TIMEOUT_EXCEEDED", of |-> Undefined, data |-> teData]
INVALID_STATE_ERR == [name |-> "INVALID_STATE_ERR", of |-> Undefined, data |-> Undefined]
\* the object a name kept by the tracker refers to, as it is now
Deref(name) == CASE name = "TIMEOUT_EXCEEDED" -> TIMEOUT_EXCEEDED
                 [] name = "INVALID_STATE_ERR" -> INVALID_STATE_ERR
                 [] OTHER -> NO_ERROR

NoLast == [op |-> "init", k |-> 0, arg |-> Undefined, cb |-> FALSE, msg |-> NoMsg,
           conn |-> FALSE, ret |-> NoErr]

\* the state after construction; the transport provider is handed in by the
\* caller and may be open already
Init ==
    /\ connected \in BOOLEAN
    /\ tp = <<>>
    /\ cp = <<>>
    /\ clog = <<>>
    /\ calls = <<>>
    /\ promise = <<>>
    /\ pending = <<>>
    /\ teData = Undefined
    /\ now = 0
    /\ last = NoLast
    /\ fx = <<>>
    /\ shown = "Disconnected"

(***************************************************************************)
(* MessageTracker (@adt/message-tracker), from the contract the client     *)
(* relies on: register keeps an entry with a deadline and returns a        *)
(* promise; matchMessage runs the entry's filter for every pending entry   *)
(* and an entry whose filter called resolve or reject is settled and       *)
(* removed; the periodic sweep rejects the entries past their deadline     *)
(* with their timeoutRejectWith and removes them.                          *)
(***************************************************************************)
\* a tracker configured with a timeout one tick short
trackerTimeout_Short == messageTimeout - 1

\* the timeout the client configures its tracker with: config.messageTimeout
trackerTimeout == messageTimeout

\* messageTracker.register(e): the register with the new entry appended
register(e) ==
    Append(pending, [k |-> e.k, message |-> e.message, params |-> e.params,
                     timeoutRejectWith |-> e.timeoutRejectWith,
                     deadline |-> now + trackerTimeout])

\* the entries of a sequence that satisfy keep, in order
RECURSIVE SelectEntries(_, _)
SelectEntries(es, keepKs) ==
    IF es = <<>> THEN <<>>
    ELSE IF Head(es).k \in keepKs
         THEN <<Head(es)>> \o SelectEntries(Tail(es), keepKs)
         ELSE SelectEntries(Tail(es), keepKs)

\* the entries the sweep finds overdue at the current instant
Overdue == {i \in 1..Len(pending) : pending[i].deadline <= now}

(***************************************************************************)
(* filterMessage(o): the effects of one run of the filter, in order.       *)
(***************************************************************************)
\* a filter that does not compare the ids
filterMatches_AnyId(o) ==
    /\ TypeOf(o.message) # "undefined"
    /\ In("id", o.message)

\* the filter goes on: the message is defined and carries the id of the
\* entry's request
filterMatches(o) ==
    /\ TypeOf(o.message) # "undefined"
    /\ Get(o.message, "id") = ReqId(o.current)

\* a filter that resolves whatever it built
filterSettle_AlwaysResolves(msg, err) == <<CallResolve(msg)>>

\* a filter that lacks the else: it resolves after it rejected
filterSettle_NoElse(msg, err) ==
    (IF err = TRUE THEN <<CallReject(msg)>> ELSE <<>>) \o <<CallResolve(msg)>>

\* the filter settles the entry: reject on error, resolve otherwise
filterSettle(msg, err) ==
    IF err = TRUE THEN <<CallReject(msg)>> ELSE <<CallResolve(msg)>>

\* a filter that emits the raw message whatever enableCallbacks is
filterCallbacks_Always(m, params) == <<EmitRaw(m)>>

\* the filter hands the raw message to the message listeners when the
\* request was sent with enableCallbacks === true
filterCallbacks(m, params) ==
    IF params.enableCallbacks = TRUE THEN <<EmitRaw(m)>> ELSE <<>>

filterMessage(o) ==
    LET m == o.message IN
    IF m.kind = "null" THEN <<Throw>>
    ELSE IF ~filterMatches(o) THEN <<>>
    ELSE
      LET msg1 == IF In("result", m)
                  THEN JsonRpcResponseResult(Get(m, "id"), Get(m, "result"))
                  ELSE UndefVal
          err  == In("error", m)
          msg  == IF In("error", m)
                  THEN JsonRpcResponseError(Get(m, "id"), JsonRpcError(Get(m, "error")))
                  ELSE msg1
      IN IF msg # UndefVal
         THEN filterCallbacks(m, o.params) \o filterSettle(msg, err)
         ELSE <<>>

\* the effects of a filter run with the settling calls attributed to call k
RECURSIVE Attribute(_, _)
Attribute(out, k) ==
    IF out = <<>> THEN <<>>
    ELSE <<IF Head(out).fx \in {"resolve", "reject"}
           THEN [Head(out) EXCEPT !.k = k] ELSE Head(out)>> \o Attribute(Tail(out), k)

HasFx(seq, kinds) == \E i \in 1..Len(seq) : seq[i].fx \in kinds

\* messageTracker.matchMessage(m) over the entries es: the effects of the
\* filter runs in order, the calls settled, whether a filter threw
RECURSIVE MatchRun(_, _, _)
MatchRun(m, es, acc) ==
    IF es = <<>> \/ acc.thrown THEN acc
    ELSE LET e == Head(es)
             out == filterMessage([message |-> m, current |-> e.message,
                                   params |-> e.params])
             settles == HasFx(out, {"resolve", "reject"})
         IN MatchRun(m, Tail(es),
                     [fx |-> acc.fx \o Attribute(out, e.k),
                      settled |-> IF settles THEN acc.settled \cup {e.k} ELSE acc.settled,
                      thrown |-> HasFx(out, {"throw"})])

matchMessage(m) == MatchRun(m, pending, [fx |-> <<>>, settled |-> {}, thrown |-> FALSE])

\* the promises after the settling calls of seq, a settled promise staying
\* as it is
RECURSIVE Settle(_, _)
Settle(ps, seq) ==
    IF seq = <<>> THEN ps
    ELSE LET f == Head(seq) IN
         IF f.fx \in {"resolve", "reject"} /\ ps[f.k].state = "pending"
         THEN Settle([ps EXCEPT ![f.k] = IF f.fx = "resolve" THEN Resolved(f.val)
                                         ELSE Rejected(f.val)], Tail(seq))
         ELSE Settle(ps, Tail(seq))

(***************************************************************************)
(* The client's operations.                                                *)
(***************************************************************************)
\* a sendRequest that hands req to the transport whatever its state
sendRequestFx_SendsAnyway(k, req) ==
    IF connected = TRUE THEN <<Register(k), Send(req)>> ELSE <<Send(req)>>

\* a sendRequest that hands req to the transport before it registers it
sendRequestFx_SendFirst(k, req) ==
    IF connected = TRUE THEN <<Send(req), Register(k)>> ELSE <<>>

\* what sendRequest does with its collaborators: register, then send, when
\* connected, and nothing otherwise
sendRequestFx(k, req) ==
    IF connected = TRUE THEN <<Register(k), Send(req)>> ELSE <<>>

\* a rejection that attaches req to the error
notConnectedResult_WithData(req) ==
    Rejected(JsonRpcResponseError(ReqId(req), [INVALID_STATE_ERR EXCEPT !.data = req]))

\* the promise sendRequest returns when the transport is not connected
notConnectedResult(req) ==
    Rejected(JsonRpcResponseError(ReqId(req), INVALID_STATE_ERR))

\* sendRequest(req, enableCallbacks)
sendRequest(req, enableCallbacks) ==
    LET k == Len(calls) + 1 IN
    /\ Len(calls) + Len(cp) < MaxOps
    /\ connected => now + messageTimeout <= MaxTime
    /\ teData' = req
    /\ IF connected = TRUE
       THEN /\ pending' = register([k |-> k, message |-> req,
                                    timeoutRejectWith |-> "TIMEOUT_EXCEEDED",
                                    params |-> [enableCallbacks |-> enableCallbacks]])
            /\ promise' = Append(promise, Pending)
       ELSE /\ promise' = Append(promise, notConnectedResult(req))
            /\ pending' = pending
    /\ fx' = sendRequestFx(k, req)
    /\ calls' = Append(calls, [req |-> req, registered |-> connected,
                               at |-> IF connected THEN now ELSE 0])
    /\ last' = [NoLast EXCEPT !.op = "sendRequest", !.k = k, !.arg = req,
                              !.cb = enableCallbacks, !.conn = connected]
    /\ UNCHANGED <<connected, tp, cp, clog, now, shown>>

\* a sendEvent that lacks the return of the else branch
sendEvent_NoErrorAlways(evt) ==
    /\ fx' = IF connected = TRUE THEN <<Send(evt)>> ELSE <<>>
    /\ last' = [NoLast EXCEPT !.op = "sendEvent", !.arg = evt, !.conn = connected,
                              !.ret = NO_ERROR]
    /\ UNCHANGED <<connected, tp, cp, clog, calls, promise, pending, teData, now, shown>>

\* sendEvent(evt)
sendEvent(evt) ==
    /\ fx' = IF connected = TRUE THEN <<Send(evt)>> ELSE <<>>
    /\ last' = [NoLast EXCEPT !.op = "sendEvent", !.arg = evt, !.conn = connected,
                              !.ret = IF connected = TRUE THEN NO_ERROR
                                      ELSE INVALID_STATE_ERR]
    /\ UNCHANGED <<connected, tp, cp, clog, calls, promise, pending, teData, now, shown>>

\* a classification that tests error before result, so that result wins
classifyResponse_ResultWins(m) ==
    LET b == IF In("error", m)
             THEN JsonRpcResponseError(Get(m, "id"), JsonRpcError(Get(m, "error")))
             ELSE UndefVal
    IN IF In("result", m)
       THEN JsonRpcResponseResult(Get(m, "id"), Get(m, "result"))
       ELSE b

\* a classification that leaves responses unclassified
classifyResponse_Drops(m) == UndefVal

\* msg after the result test and the error test of onMessage, for a message
\* with id
classifyResponse(m) ==
    LET a == IF In("result", m)
             THEN JsonRpcResponseResult(Get(m, "id"), Get(m, "result"))
             ELSE UndefVal
    IN IF In("error", m)
       THEN JsonRpcResponseError(Get(m, "id"), JsonRpcError(Get(m, "error")))
       ELSE a

\* a classification without the method test for messages with id
Classify_MethodIgnored(m) ==
    IF TypeOf(m) = "object"
    THEN IF In("id", m)
         THEN classifyResponse(m)
         ELSE JsonRpcEvent(Get(m, "method"), Get(m, "params"))
    ELSE UndefVal

\* a classification that tests method only when neither result nor error
\* classified the message
Classify_ElseIfMethod(m) ==
    IF TypeOf(m) = "object"
    THEN IF In("id", m)
         THEN IF classifyResponse(m) = UndefVal /\ In("method", m)
              THEN JsonRpcRequest(Get(m, "id"), Get(m, "method"), Get(m, "params"))
              ELSE classifyResponse(m)
         ELSE JsonRpcEvent(Get(m, "method"), Get(m, "params"))
    ELSE UndefVal

\* the classification onMessage makes of a message the tracker did not match
Classify(m) ==
    IF TypeOf(m) = "object"
    THEN IF In("id", m)
         THEN IF In("method", m)
              THEN JsonRpcRequest(Get(m, "id"), Get(m, "method"), Get(m, "params"))
              ELSE classifyResponse(m)
         ELSE JsonRpcEvent(Get(m, "method"), Get(m, "params"))
    ELSE UndefVal

\* onMessage(m), the transport's message callback
onMessage(m) ==
    LET r == matchMessage(m)
        matched == r.settled # {}
        own == IF r.thrown \/ matched THEN <<>>
               ELSE IF m.kind = "null" THEN <<Throw>>
               ELSE <<EmitMessage(Classify(m))>>
        left == {pending[i].k : i \in 1..Len(pending)} \ r.settled
    IN /\ fx' = r.fx \o own
       /\ promise' = Settle(promise, r.fx)
       /\ pending' = SelectEntries(pending, left)
       /\ last' = [NoLast EXCEPT !.op = "onMessage", !.msg = m, !.conn = connected]
       /\ UNCHANGED <<connected, tp, cp, clog, calls, teData, now, shown>>

\* promises of the connect path: settled with nothing or with an error
CPending == [state |-> "pending", err |-> Undefined]
CResolved == [state |-> "resolved", err |-> Undefined]
CRejected(e) == [state |-> "rejected", err |-> e]

\* a connect() that does not announce itself
connect_Silent ==
    LET c == Len(cp) + 1 IN
    /\ Len(calls) + Len(cp) < MaxOps
    /\ fx' = <<>>
    /\ tp' = Append(tp, CPending)
    /\ cp' = Append(cp, CPending)
    /\ clog' = Append(clog, <<>>)
    /\ last' = [NoLast EXCEPT !.op = "connect", !.k = c, !.conn = connected]
    /\ UNCHANGED <<connected, calls, promise, pending, teData, now, shown>>

\* connect(): the executor of the returned promise
connect ==
    LET c == Len(cp) + 1 IN
    /\ Len(calls) + Len(cp) < MaxOps
    /\ fx' = <<Emit("connecting", Undefined)>>
    /\ tp' = Append(tp, CPending)
    /\ cp' = Append(cp, CPending)
    /\ clog' = Append(clog, <<"connecting">>)
    /\ last' = [NoLast EXCEPT !.op = "connect", !.k = c, !.conn = connected]
    /\ shown' = "Connecting"
    /\ UNCHANGED <<connected, calls, promise, pending, teData, now>>

\* a then callback that resolves before it emits
connectThen_ResolvesFirst(c) ==
    /\ tp[c].state = "resolved"
    /\ cp[c].state = "pending"
    /\ fx' = <<[NoFx EXCEPT !.fx = "resolveConnect", !.k = c], Emit("connected", Undefined)>>
    /\ cp' = [cp EXCEPT ![c] = CResolved]
    /\ clog' = [clog EXCEPT ![c] = @ \o <<"resolve", "connected">>]
    /\ last' = [NoLast EXCEPT !.op = "connectThen", !.k = c, !.conn = connected]
    /\ shown' = "Connected"
    /\ UNCHANGED <<connected, tp, calls, promise, pending, teData, now>>

\* the then callback of connect call c, run once the transport's promise
\* is resolved
connectThen(c) ==
    /\ tp[c].state = "resolved"
    /\ cp[c].state = "pending"
    /\ fx' = <<Emit("connected", Undefined), [NoFx EXCEPT !.fx = "resolveConnect", !.k = c]>>
    /\ cp' = [cp EXCEPT ![c] = CResolved]
    /\ clog' = [clog EXCEPT ![c] = @ \o <<"connected", "resolve">>]
    /\ last' = [NoLast EXCEPT !.op = "connectThen", !.k = c, !.conn = connected]
    /\ shown' = "Connected"
    /\ UNCHANGED <<connected, tp, calls, promise, pending, teData, now>>

\* a catch callback that emits the connectionerror event
connectCatch_EmitsConnectionError(c) ==
    /\ tp[c].state = "rejected"
    /\ cp[c].state = "pending"
    /\ fx' = <<Emit("connectionerror", tp[c].err),
               [NoFx EXCEPT !.fx = "rejectConnect", !.k = c, !.arg = tp[c].err]>>
    /\ cp' = [cp EXCEPT ![c] = CRejected(tp[c].err)]
    /\ clog' = [clog EXCEPT ![c] = @ \o <<"connectionerror", "reject">>]
    /\ last' = [NoLast EXCEPT !.op = "connectCatch", !.k = c, !.arg = tp[c].err,
                              !.conn = connected]
    /\ UNCHANGED <<connected, tp, calls, promise, pending, teData, now, shown>>

\* the catch callback of connect call c, run once the transport's promise
\* is rejected
connectCatch(c) ==
    /\ tp[c].state = "rejected"
    /\ cp[c].state = "pending"
    /\ fx' = <<[NoFx EXCEPT !.fx = "rejectConnect", !.k = c, !.arg = tp[c].err]>>
    /\ cp' = [cp EXCEPT ![c] = CRejected(tp[c].err)]
    /\ clog' = [clog EXCEPT ![c] = @ \o <<"reject">>]
    /\ last' = [NoLast EXCEPT !.op = "connectCatch", !.k = c, !.arg = tp[c].err,
                              !.conn = connected]
    /\ UNCHANGED <<connected, tp, calls, promise, pending, teData, now, shown>>

\* a disconnect callback that drops the transport's payload
onDisconnectFx_NoPayload(evt) == <<Emit("disconnected", Undefined)>>

\* what onDisconnect(evt) does: one disconnected emission carrying evt
onDisconnectFx(evt) == <<Emit("disconnected", evt)>>

\* a disconnect callback that also empties the tracker's register
onDisconnect_DropsPending(evt) ==
    /\ connected' = FALSE
    /\ fx' = onDisconnectFx(evt)
    /\ pending' = <<>>
    /\ last' = [NoLast EXCEPT !.op = "onDisconnect", !.arg = evt, !.conn = connected]
    /\ shown' = "Disconnected"
    /\ UNCHANGED <<tp, cp, clog, calls, promise, teData, now>>

\* onDisconnect(evt), the transport's disconnect callback
onDisconnect(evt) ==
    /\ connected' = FALSE
    /\ fx' = onDisconnectFx(evt)
    /\ last' = [NoLast EXCEPT !.op = "onDisconnect", !.arg = evt, !.conn = connected]
    /\ shown' = "Disconnected"
    /\ UNCHANGED <<tp, cp, clog, calls, promise, pending, teData, now>>

\* disconnect()
disconnect ==
    /\ fx' = <<TDisconnect>>
    /\ last' = [NoLast EXCEPT !.op = "disconnect", !.conn = connected]
    /\ UNCHANGED <<connected, tp, cp, clog, calls, promise, pending, teData, now, shown>>

(***************************************************************************)
(* The collaborators' own steps.                                           *)
(***************************************************************************)
\* the transport opens the channel: the promise of connect call c resolves
TransportConnectResolves(c) ==
    /\ tp[c].state = "pending"
    /\ tp' = [tp EXCEPT ![c] = CResolved]
    /\ connected' = TRUE
    /\ fx' = <<>>
    /\ last' = [NoLast EXCEPT !.op = "transportResolves", !.k = c, !.conn = connected]
    /\ UNCHANGED <<cp, clog, calls, promise, pending, teData, now, shown>>

\* the transport fails to open the channel: the promise rejects with e
TransportConnectRejects(c, e) ==
    /\ tp[c].state = "pending"
    /\ tp' = [tp EXCEPT ![c] = CRejected(e)]
    /\ fx' = <<>>
    /\ last' = [NoLast EXCEPT !.op = "transportRejects", !.k = c, !.arg = e,
                              !.conn = connected]
    /\ UNCHANGED <<connected, cp, clog, calls, promise, pending, teData, now, shown>>

\* time passes (the clock is read only by the tracker, and only for the
\* entries it holds)
Tick ==
    /\ now < MaxTime
    /\ pending # <<>>
    /\ now' = now + 1
    /\ fx' = <<>>
    /\ last' = [NoLast EXCEPT !.op = "tick", !.conn = connected]
    /\ UNCHANGED <<connected, tp, cp, clog, calls, promise, pending, teData, shown>>

\* the rejections of the sweep, in register order
RECURSIVE SweepFx(_)
SweepFx(es) ==
    IF es = <<>> THEN <<>>
    ELSE IF Head(es).deadline <= now
         THEN <<[CallReject(ErrVal(Deref(Head(es).timeoutRejectWith)))
                    EXCEPT !.k = Head(es).k]>> \o SweepFx(Tail(es))
         ELSE SweepFx(Tail(es))

\* the tracker's periodic sweep (a sweep that finds nothing overdue changes
\* nothing)
Sweep ==
    /\ Overdue # {}
    /\ fx' = SweepFx(pending)
    /\ promise' = Settle(promise, SweepFx(pending))
    /\ pending' = SelectEntries(pending,
                      {pending[i].k : i \in (1..Len(pending)) \ Overdue})
    /\ last' = [NoLast EXCEPT !.op = "sweep", !.conn = connected]
    /\ UNCHANGED <<connected, tp, cp, clog, calls, teData, now, shown>>

Next ==
    \/ \E req \in Reqs, cb \in BOOLEAN : sendRequest(req, cb)
    \/ \E evt \in Evts : sendEvent(evt)
    \/ \E m \in Msgs : onMessage(m)
    \/ connect
    \/ \E c \in 1..Len(cp) : connectThen(c)
    \/ \E c \in 1..Len(cp) : connectCatch(c)
    \/ \E evt \in DiscEvts : onDisconnect(evt)
    \/ disconnect
    \/ \E c \in 1..Len(tp) : TransportConnectResolves(c)
    \/ \E c \in 1..Len(tp), e \in ConnErrs : TransportConnectRejects(c, e)
    \/ Tick
    \/ Sweep

Spec == Init /\ [][Next]_vars

\* the timer keeps running: time passes and the sweep is run
FairSpec == Spec /\ WF_vars(Tick) /\ WF_vars(Sweep)

(***************************************************************************)
(* Vocabulary of the properties.                                           *)
(***************************************************************************)
Calls == 1..Len(calls)
IsPending(k) == promise[k].state = "pending"
\* the promise of call k was rejected by the sweep
TimedOut(k) ==
    /\ promise[k].state = "rejected"
    /\ promise[k].val.type = "JsonRpcError"
    /\ promise[k].val.error.name = "TIMEOUT_EXCEEDED"
\* the promise of call k was settled by the filter on an inbound reply
Replied(k) ==
    /\ promise[k].state \in {"resolved", "rejected"}
    /\ promise[k].val.type \in {"ResponseResult", "ResponseError"}
    /\ promise[k].val.error.name # "INVALID_STATE_ERR"
\* the settling calls made for call k in a run of effects
SettlingCalls(seq, k) == {i \in 1..Len(seq) : seq[i].fx \in {"resolve", "reject"} /\ seq[i].k = k}
\* the tracker's entries of call k
EntriesOf(es, k) == {i \in 1..Len(es) : es[i].k = k}

(***************************************************************************)
(* C1: a reply {id, result: R} delivered while a request with that id is   *)
(* pending resolves its promise with ResponseResult{id, R}; a reply        *)
(* {id, error: E} rejects it with ResponseError{id, JsonRpcError(E)}.      *)
(***************************************************************************)
C1_ReplySettlesPending ==
    [][\A k \in Calls :
         (/\ IsPending(k)
          /\ last'.op = "onMessage"
          /\ last'.msg.kind = "object"
          /\ last'.msg.id = ReqId(calls[k].req))
         => LET m == last'.msg IN
            /\ (m.result # Absent /\ m.error = Absent)
                 => promise'[k] =
                      [state |-> "resolved",
                       val |-> [type |-> "ResponseResult", id |-> m.id, result |-> m.result,
                                error |-> NoErr, method |-> Undefined,
                                params |-> Undefined]]
            /\ (m.error # Absent /\ m.result = Absent)
                 => promise'[k] =
                      [state |-> "rejected",
                       val |-> [type |-> "ResponseError", id |-> m.id, result |-> Undefined,
                                error |-> [name |-> "JsonRpcError", of |-> m.error,
                                           data |-> Undefined],
                                method |-> Undefined, params |-> Undefined]]
      ]_vars

\* one request was just resolved by its reply and another rejected by its own
C1_Witness ==
    /\ last.op = "onMessage"
    /\ \E k \in Calls : promise[k].state = "resolved" /\ promise[k].val.result = "r2"
    /\ \E k \in Calls : promise[k].state = "rejected" /\ promise[k].val.type = "ResponseError"
                        /\ promise[k].val.error.of = "e1"

(***************************************************************************)
(* C2: a request is settled at most once: no run makes two settling calls  *)
(* for one request, and once its promise is settled (by a reply or by the  *)
(* sweep) no later reply or sweep makes a settling call for it or changes  *)
(* what it was settled with.                                               *)
(***************************************************************************)
C2_SettledAtMostOnce ==
    [][\A k \in Calls :
         /\ Cardinality(SettlingCalls(fx', k)) <= 1
         /\ ~IsPending(k) => (promise'[k] = promise[k] /\ SettlingCalls(fx', k) = {})
      ]_vars

\* a reply for a request arrives after the sweep rejected it
C2_Witness ==
    /\ last.op = "onMessage"
    /\ \E k \in Calls : /\ TimedOut(k)
                        /\ last.msg.id = ReqId(calls[k].req)
                        /\ last.msg.result # Absent

(***************************************************************************)
(* C3: while the timer keeps running, a pending request is eventually      *)
(* rejected with TIMEOUT_EXCEEDED unless a reply settles it first, and it  *)
(* is never rejected with TIMEOUT_EXCEEDED before messageTimeout has       *)
(* elapsed since it was registered.                                        *)
(***************************************************************************)
C3_TimeoutRejects ==
    /\ \A k \in 1..MaxOps :
         (k \in Calls /\ IsPending(k)) ~> (k \in Calls /\ (TimedOut(k) \/ Replied(k)))
    /\ [](\A k \in Calls : TimedOut(k) => now >= calls[k].at + messageTimeout)

\* the sweep just rejected a request that no reply had settled
C3_Witness ==
    /\ last.op = "sweep"
    /\ \E k \in Calls : TimedOut(k) /\ SettlingCalls(fx, k) # {}

(***************************************************************************)
(* C4: the TIMEOUT_EXCEEDED error a request is rejected with carries that  *)
(* request as data, whatever other sendRequest calls were made meanwhile.  *)
(***************************************************************************)
C4_TimeoutDataIsRequest ==
    \A k \in Calls : TimedOut(k) => promise[k].val.error.data = calls[k].req

(***************************************************************************)
(* C5: a pending request is settled only by a reply carrying its own id or *)
(* by the sweep once its own deadline has passed; in every other step,     *)
(* among them the delivery of a reply carrying another request's id, its   *)
(* promise stays pending and its entry stays in the tracker with the       *)
(* deadline unchanged.                                                     *)
(***************************************************************************)
C5_SettledIndependently ==
    [][\A k \in Calls :
         IsPending(k) =>
           \/ /\ promise'[k] = promise[k]
              /\ \E i \in EntriesOf(pending, k), j \in EntriesOf(pending', k) :
                    pending'[j] = pending[i]
           \/ /\ last'.op = "onMessage"
              /\ last'.msg.id = ReqId(calls[k].req)
           \/ /\ last'.op = "sweep"
              /\ \E i \in EntriesOf(pending, k) : pending[i].deadline <= now
      ]_vars

\* of two pending requests with distinct ids, the reply of one has just
\* settled it and the other is still pending
C5_Witness ==
    /\ last.op = "onMessage"
    /\ \E k \in Calls, j \in Calls :
         /\ ReqId(calls[k].req) # ReqId(calls[j].req)
         /\ Replied(k) /\ SettlingCalls(fx, k) # {}
         /\ IsPending(j)

(***************************************************************************)
(* C6: sendRequest(req) on a transport that is not connected returns a     *)
(* promise already rejected with a ResponseError of id req.id wrapping     *)
(* INVALID_STATE_ERR, registers nothing with the tracker and does not      *)
(* invoke the transport's send.                                            *)
(***************************************************************************)
C6_DisconnectedSendRequest ==
    [][(last'.op = "sendRequest" /\ connected = FALSE) =>
         /\ promise'[last'.k].state = "rejected"
         /\ promise'[last'.k].val.type = "ResponseError"
         /\ promise'[last'.k].val.id = ReqId(last'.arg)
         /\ promise'[last'.k].val.error.name = "INVALID_STATE_ERR"
         /\ pending' = pending
         /\ \A i \in 1..Len(fx') : fx'[i].fx \notin {"register", "send"}
      ]_vars

\* a sendRequest call was just made on a disconnected transport while
\* another request was pending
C6_Witness ==
    /\ last.op = "sendRequest"
    /\ last.conn = FALSE
    /\ pending # <<>>

C8_SendEvent ==
    [][last'.op = "sendEvent" =>
         /\ connected = TRUE =>
              (last'.ret.name = "NO_ERROR" /\ fx' = <<Send(last'.arg)>>)
         /\ connected = FALSE =>
              (last'.ret.name = "INVALID_STATE_ERR" /\ fx' = <<>>)
         /\ pending' = pending /\ promise' = promise /\ calls' = calls
      ]_vars

\* an event was just refused on a disconnected transport while a request
\* was pending
C8_Witness ==
    /\ last.op = "sendEvent"
    /\ last.conn = FALSE
    /\ last.ret.name = "INVALID_STATE_ERR"
    /\ pending # <<>>

(***************************************************************************)
(* C9: the promise of connect() is resolved only if the transport's        *)
(* connect resolved and is never rejected when it did; on success the call *)
(* emitted connecting, then connected, then resolved its promise.          *)
(***************************************************************************)
C9_ConnectResolves ==
    \A c \in 1..Len(cp) :
        /\ cp[c].state = "resolved" =>
             (tp[c].state = "resolved" /\ clog[c] = <<"connecting", "connected", "resolve">>)
        /\ tp[c].state = "resolved" => cp[c].state \in {"pending", "resolved"}
        /\ (last.op = "connectThen" /\ last.k = c) =>
             (/\ cp[c].state = "resolved"
              /\ Len(fx) = 2
              /\ fx[1] = Emit("connected", Undefined)
              /\ fx[2].fx = "resolveConnect")

\* the then callback of a connect call has just run
C9_Witness ==
    /\ last.op = "connectThen"
    /\ cp[last.k].state = "resolved"

UnmatchedObject ==
    /\ last.op = "onMessage"
    /\ last.msg.kind = "object"
    /\ \A i \in 1..Len(fx) : fx[i].fx \notin {"resolve", "reject"}

(***************************************************************************)
(* C11: an inbound object that no pending request consumes is emitted on   *)
(* message as Event{method, params} when it has method and no id, and as   *)
(* Request{id, method, params} when it has id and method and neither       *)
(* result nor error.                                                       *)
(***************************************************************************)
C11_EventAndRequest ==
    UnmatchedObject =>
      LET m == last.msg IN
      /\ (m.method # Absent /\ m.id = Absent) =>
           fx = <<EmitMessage([type |-> "Event", id |-> Undefined, result |-> Undefined,
                               error |-> NoErr, method |-> m.method,
                               params |-> m.params])>>
      /\ (m.id # Absent /\ m.method # Absent /\ m.result = Absent /\ m.error = Absent) =>
           fx = <<EmitMessage([type |-> "Request", id |-> m.id, result |-> Undefined,
                               error |-> NoErr, method |-> m.method,
                               params |-> m.params])>>

\* an inbound request carrying the id of a pending request was just emitted
C11_Witness ==
    /\ UnmatchedObject
    /\ last.msg.id = "a" /\ last.msg.method = "m"
    /\ last.msg.result = Absent /\ last.msg.error = Absent
    /\ \E k \in Calls : IsPending(k) /\ calls[k].req = "reqA"
    /\ Len(fx) = 1 /\ fx[1].val.type = "Request"

\* the last run was onMessage on an object carrying id, result and error
BothResultAndError ==
    /\ last.op = "onMessage"
    /\ last.msg.kind = "object"
    /\ last.msg.id # Absent /\ last.msg.result # Absent /\ last.msg.error # Absent

\* ResponseError{id, JsonRpcError(error)} of the message m
ResponseErrorOf(m) ==
    [type |-> "ResponseError", id |-> m.id, result |-> Undefined,
     error |-> [name |-> "JsonRpcError", of |-> m.error, data |-> Undefined],
     method |-> Undefined, params |-> Undefined]

\* every settling call of the last run rejects with the ResponseError of m
OnlyRejectsWithError(m) ==
    \A i \in 1..Len(fx) :
        fx[i].fx \in {"resolve", "reject"} =>
            (fx[i].fx = "reject" /\ fx[i].val = ResponseErrorOf(m))

(***************************************************************************)
(* C12 as stated: a message carrying both result and error rejects the     *)
(* pending request it matches with a ResponseError, and when it matches    *)
(* none it is emitted on message as a ResponseError.                       *)
(***************************************************************************)
C12_ErrorPrecedence ==
    BothResultAndError =>
      /\ OnlyRejectsWithError(last.msg)
      /\ UnmatchedObject => fx = <<EmitMessage(ResponseErrorOf(last.msg))>>

(***************************************************************************)
(* C12 as amended: a message carrying both result and error rejects the    *)
(* pending request it matches with a ResponseError, and when it matches    *)
(* none and carries no method it is emitted on message as a ResponseError. *)
(***************************************************************************)
C12_ErrorPrecedenceNoMethod ==
    BothResultAndError =>
      /\ OnlyRejectsWithError(last.msg)
      /\ (UnmatchedObject /\ last.msg.method = Absent) =>
             fx = <<EmitMessage(ResponseErrorOf(last.msg))>>

\* a message with result and error and no method was just emitted, no
\* request having consumed it
C12_Witness ==
    /\ BothResultAndError
    /\ UnmatchedObject
    /\ last.msg.method = Absent
    /\ fx = <<EmitMessage(ResponseErrorOf(last.msg))>>

(***************************************************************************)
(* C13: for an inbound message that no pending request consumes and that   *)
(* is not an object, or has none of result, error and method, nothing is   *)
(* emitted on message.                                                     *)
(***************************************************************************)
C13_SilentDrop ==
    (/\ last.op = "onMessage"
     /\ \A i \in 1..Len(fx) : fx[i].fx \notin {"resolve", "reject"}
     /\ \/ last.msg.kind # "object"
        \/ (last.msg.result = Absent /\ last.msg.error = Absent
            /\ last.msg.method = Absent))
    => \A i \in 1..Len(fx) : ~(fx[i].fx = "emit" /\ fx[i].name = "message")

\* the i-th effect is a settling call for a request whose tracker entry es
\* holds with enableCallbacks as given
SettlesWith(seq, i, es, cb) ==
    /\ i \in 1..Len(seq)
    /\ seq[i].fx \in {"resolve", "reject"}
    /\ \E j \in EntriesOf(es, seq[i].k) : (es[j].params.enableCallbacks = TRUE) = cb

(***************************************************************************)
(* C14: when a pending request consumes an inbound reply, the only message *)
(* emission of the run is the raw message: once for the request, right     *)
(* before its promise is settled, when the request was sent with           *)
(* enableCallbacks true, and not at all otherwise.                         *)
(***************************************************************************)
C14_RawMessageBeforeSettle ==
    [][(/\ last'.op = "onMessage"
        /\ \E i \in 1..Len(fx') : fx'[i].fx \in {"resolve", "reject"})
       => \A i \in 1..Len(fx') :
            /\ fx'[i].fx = "emit" =>
                 (fx'[i] = EmitRaw(last'.msg) /\ SettlesWith(fx', i + 1, pending, TRUE))
            /\ SettlesWith(fx', i, pending, TRUE) =>
                 (i > 1 /\ fx'[i - 1] = EmitRaw(last'.msg))
            /\ SettlesWith(fx', i, pending, FALSE) =>
                 (i = 1 \/ fx'[i - 1].fx # "emit")
            /\ fx'[i].fx \in {"emit", "resolve", "reject"}
      ]_vars

\* an error reply was just consumed by a request sent with enableCallbacks,
\* the raw message emitted first, while another request stays pending
C14_Witness ==
    /\ last.op = "onMessage"
    /\ Len(fx) = 2
    /\ fx[1] = EmitRaw(last.msg)
    /\ fx[2].fx = "reject"
    /\ \E k \in Calls : k # fx[2].k /\ IsPending(k)

(***************************************************************************)
(* C15: every disconnect() call invokes the transport's disconnect and     *)
(* emits nothing itself; every run of the transport's disconnect callback  *)
(* with payload evt makes exactly one disconnected emission carrying evt.  *)
(***************************************************************************)
C15_Disconnect ==
    /\ last.op = "disconnect" => fx = <<TDisconnect>>
    /\ last.op = "onDisconnect" => fx = <<Emit("disconnected", last.arg)>>

\* the disconnect callback has just run with a payload
C15_Witness ==
    /\ last.op = "onDisconnect"
    /\ last.arg = "d2"
    /\ Len(fx) = 1

\* connect call c has emitted connecting and then connected, its
\* transport promise resolved
Announced(c) ==
    /\ c \in 1..Len(cp)
    /\ tp[c].state = "resolved"
    /\ Len(clog[c]) >= 2
    /\ clog[c][1] = "connecting"
    /\ clog[c][2] = "connected"

(***************************************************************************)
(* C16 as stated: the state shown by the lifecycle events only moves       *)
(* Disconnected -> Connecting -> {Connected | Disconnected} and            *)
(* Connected -> Disconnected: connecting is never emitted while Connected  *)
(* is shown, and connected is emitted only from Connecting.                *)
(***************************************************************************)
C16_LifecycleMonotonic ==
    [][/\ (shown = "Disconnected" /\ shown' # shown) => shown' = "Connecting"
       /\ (shown = "Connected" /\ shown' # shown) => shown' = "Disconnected"
       /\ last'.op = "connect" => shown # "Connected"
       /\ last'.op = "connectThen" => shown = "Connecting"
      ]_vars

(***************************************************************************)
(* C16 as the code has it: every connect() call emits connecting when it   *)
(* is called, whatever state is shown; connected is emitted only by a      *)
(* call that emitted connecting before and whose transport promise         *)
(* resolved; every disconnect callback shows Disconnected.                 *)
(***************************************************************************)
C16_LifecyclePerCall ==
    /\ last.op = "connect" =>
         (fx = <<Emit("connecting", Undefined)>> /\ shown = "Connecting")
    /\ last.op = "connectThen" => (Announced(last.k) /\ shown = "Connected")
    /\ last.op = "onDisconnect" => shown = "Disconnected"
    /\ shown = "Connecting" => Len(cp) > 0
    /\ shown = "Connected" => \E c \in 1..Len(cp) : Announced(c)

\* a second connect() call has just emitted connecting although the first
\* call's connected was the last lifecycle event (the transport has stayed
\* open since, so no disconnected came in between)
C16_Witness ==
    /\ last.op = "connect"
    /\ last.k = 2
    /\ last.conn = TRUE
    /\ Announced(1)
    /\ shown = "Connecting"

(***************************************************************************)
(* C17: disconnect() and the transport's disconnect callback leave the     *)
(* pending requests and their promises as they are; a request pending at   *)
(* the disconnect is settled later, by a reply or by its own timeout.      *)
(***************************************************************************)
C17_DisconnectKeepsPending ==
    /\ [][last'.op \in {"disconnect", "onDisconnect"}
            => (pending' = pending /\ promise' = promise)]_vars
    /\ \A k \in 1..MaxOps :
         (k \in Calls /\ IsPending(k) /\ last.op \in {"disconnect", "onDisconnect"})
           ~> (k \in Calls /\ (TimedOut(k) \/ Replied(k)))

\* the sweep has just rejected, with TIMEOUT_EXCEEDED, a request that was
\* registered on an open transport and was pending when the transport's
\* disconnect callback ran
C17_Witness ==
    /\ last.op = "sweep"
    /\ connected = FALSE
    /\ shown = "Disconnected"
    /\ \E k \in Calls : TimedOut(k) /\ SettlingCalls(fx, k) # {}

\* ResponseResult{id, result} of the message m
ResponseResultOf(m) ==
    [type |-> "ResponseResult", id |-> m.id, result |-> m.result, error |-> NoErr,
     method |-> Undefined, params |-> Undefined]

\* Request{id, method, params} of the message m
RequestOf(m) ==
    [type |-> "Request", id |-> m.id, result |-> Undefined, error |-> NoErr,
     method |-> m.method, params |-> m.params]

\* the last run was onMessage on an object with id that no pending request
\* consumed
UnmatchedWithId == UnmatchedObject /\ last.msg.id # Absent

(***************************************************************************)
(* C18 as stated: an object with id that matches no pending request is     *)
(* emitted on message as ResponseError if error is present, else as        *)
(* ResponseResult if result is present, else as Request if method is       *)
(* present.                                                                *)
(***************************************************************************)
C18_RequestOnlyWithoutResponse ==
    UnmatchedWithId =>
      LET m == last.msg IN
      /\ m.error # Absent => fx = <<EmitMessage(ResponseErrorOf(m))>>
      /\ (m.error = Absent /\ m.result # Absent) =>
           fx = <<EmitMessage(ResponseResultOf(m))>>
      /\ (m.error = Absent /\ m.result = Absent /\ m.method # Absent) =>
           fx = <<EmitMessage(RequestOf(m))>>

(***************************************************************************)
(* C18 as the code has it: an object with id that matches no pending       *)
(* request is emitted on message as Request if method is present, else as  *)
(* ResponseError if error is present, else as ResponseResult if result is  *)
(* present.                                                                *)
(***************************************************************************)
C18_MethodTestedLast ==
    UnmatchedWithId =>
      LET m == last.msg IN
      /\ m.method # Absent => fx = <<EmitMessage(RequestOf(m))>>
      /\ (m.method = Absent /\ m.error # Absent) =>
           fx = <<EmitMessage(ResponseErrorOf(m))>>
      /\ (m.method = Absent /\ m.error = Absent /\ m.result # Absent) =>
           fx = <<EmitMessage(ResponseResultOf(m))>>

\* an object with id, result and method that no request consumed was just
\* emitted as a Request
C18_Witness ==
    /\ UnmatchedWithId
    /\ last.msg.result # Absent
    /\ last.msg.error = Absent
    /\ last.msg.method # Absent
    /\ fx = <<EmitMessage(RequestOf(last.msg))>>

\* m is a reply to req: it carries req's id and a result or an error
ReplyTo(m, req) ==
    /\ m.kind = "object"
    /\ m.id = ReqId(req)
    /\ (m.result # Absent \/ m.error # Absent)

(***************************************************************************)
(* C19: sendRequest on a connected transport registers the pending entry   *)
(* for req before it hands req to the transport's send, so the entry       *)
(* exists whenever the request is on the wire, and a reply delivered right *)
(* after the send is consumed by the request.                              *)
(***************************************************************************)
C19_RegisterBeforeSend ==
    [][/\ (last'.op = "sendRequest" /\ connected = TRUE) =>
            /\ fx' = <<Register(last'.k), Send(last'.arg)>>
            /\ EntriesOf(pending', last'.k) # {}
            /\ promise'[last'.k].state = "pending"
       /\ (/\ last.op = "sendRequest" /\ last.conn = TRUE
           /\ last'.op = "onMessage" /\ ReplyTo(last'.msg, last.arg)) =>
            /\ SettlingCalls(fx', last.k) # {}
            /\ \A i \in 1..Len(fx') : ~(fx'[i].fx = "emit" /\ fx'[i].name = "message"
                                        /\ fx'[i] # EmitRaw(last'.msg))
            /\ promise'[last.k].state # "pending"
      ]_vars

\* a second request was just registered and sent on an open transport
C19_Witness ==
    /\ last.op = "sendRequest"
    /\ last.conn = TRUE
    /\ fx = <<Register(last.k), Send(last.arg)>>
    /\ Len(pending) = 2
    /\ pending[2].k = last.k

\* the calls whose request carries the id of m
CallsWithId(m) == {k \in Calls : ReqId(calls[k].req) = m.id}

\* m is a plain reply, {id, result} or {id, error}, to a request sent before
\* of which no call is pending any more
LateReply(m) ==
    /\ m.kind = "object"
    /\ m.method = Absent
    /\ (m.result = Absent) # (m.error = Absent)
    /\ CallsWithId(m) # {}
    /\ \A k \in CallsWithId(m) : ~IsPending(k)

(***************************************************************************)
(* C20: a reply {id, result} or {id, error} that arrives after the request *)
(* with that id was settled settles no promise and is emitted once on      *)
(* message as the classified ResponseResult or ResponseError; a message    *)
(* that carries a pending request's id but neither result nor error        *)
(* leaves that request pending.                                            *)
(***************************************************************************)
C20_LateAndEmptyReplies ==
    [][last'.op = "onMessage" =>
         LET m == last'.msg IN
         /\ LateReply(m) =>
              /\ promise' = promise
              /\ pending' = pending
              /\ fx' = <<EmitMessage(IF m.error # Absent THEN ResponseErrorOf(m)
                                     ELSE ResponseResultOf(m))>>
         /\ (m.kind = "object" /\ m.result = Absent /\ m.error = Absent) =>
              \A k \in CallsWithId(m) :
                  IsPending(k) =>
                      /\ promise'[k] = promise[k]
                      /\ EntriesOf(pending', k) = EntriesOf(pending, k)
                      /\ SettlingCalls(fx', k) = {}
      ]_vars

\* a result reply for a request that had timed out was just emitted as a
\* ResponseResult
C20_Witness ==
    /\ last.op = "onMessage"
    /\ last.msg.method = Absent
    /\ last.msg.result # Absent
    /\ last.msg.error = Absent
    /\ \E k \in CallsWithId(last.msg) : TimedOut(k)
    /\ \A k \in CallsWithId(last.msg) : ~IsPending(k)
    /\ fx = <<EmitMessage(ResponseResultOf(last.msg))>>

====
